---- MODULE Spec2Model ----
(***************************************************************************)
(* Larval-habitat capacity models of habitat.py:                           *)
(*   BaseHabitatModel, ConstantHabitatModel,                                *)
(*   TemporaryRainfallHabitatModel, SeasonalStreamHabitatModel.             *)
(*                                                                         *)
(* Numbers.  The program computes with floats.  Here a number is an exact  *)
(* rational <<n, d>> in lowest terms with d > 0.  The parameter and        *)
(* weather values below are dyadic or small, so over the bounded runs the  *)
(* arithmetic of lines 76-77 and 104-105 is the same sum, product and      *)
(* difference the program forms; rounding of the float results, infinities *)
(* and NaN are outside the model.                                          *)
(***************************************************************************)
EXTENDS Integers, Sequences, FiniteSets, TLC

VARIABLES
    cls,        \* class of the constructed model(s)
    args,       \* constructor arguments, per instance
    obj,        \* the instances: obj[i] is the record of instance attributes
    prev,       \* obj as it was before the last call
    weather,    \* the weather record given to the last update call
    outcome,    \* the last call: its method, instance, exception, return value
    steps       \* number of update calls made so far

vars == <<cls, args, obj, prev, weather, outcome, steps>>

\* Number of update calls (timesteps) the driver makes.
MaxSteps == 3

(***************************************************************************)
(* Rational arithmetic                                                     *)
(***************************************************************************)
Abs(x) == IF x < 0 THEN -x ELSE x

RECURSIVE GCD(_, _)
GCD(a, b) == IF b = 0 THEN a ELSE GCD(b, a % b)

LCM(a, b) == (a \div GCD(a, b)) * b

Rat(n, d) ==
    LET s == IF d < 0 THEN -1 ELSE 1
        g == GCD(Abs(n), Abs(d))
    IN  <<(s * n) \div g, (s * d) \div g>>

Zero == <<0, 1>>
One  == <<1, 1>>
None == <<>>

RAdd(x, y) ==
    LET l == LCM(x[2], y[2])
    IN  Rat(x[1] * (l \div x[2]) + y[1] * (l \div y[2]), l)

RNeg(x) == <<-x[1], x[2]>>

RSub(x, y) == RAdd(x, RNeg(y))

RMul(x, y) ==
    LET a == Rat(x[1], y[2])
        b == Rat(y[1], x[2])
    IN  <<a[1] * b[1], a[2] * b[2]>>

\* x / y for y # 0
RDiv(x, y) == RMul(x, Rat(y[2], y[1]))

RLt(x, y) ==
    LET l == LCM(x[2], y[2])
    IN  x[1] * (l \div x[2]) < y[1] * (l \div y[2])

RLe(x, y) == ~RLt(y, x)

(***************************************************************************)
(* Inputs                                                                  *)
(***************************************************************************)
\* mean_temp_C values [deg C]
Temps == {20, 25}

\* rel_humid values, fractions in [0, 1]
Humids == {Zero, <<1, 2>>}

\* rain_mm values, >= 0
Rains == {Zero, <<10, 1>>}

WeatherRecords == [mean_temp_C : Temps, rel_humid : Humids, rain_mm : Rains]

\* constructor arguments
Capacities    == {<<7, 1>>, <<5, 2>>}
AccumScales   == {<<-1, 1>>, One}
EvapScales    == {Zero, <<1, 2>>}
DecayScales   == {<<1, 2>>, <<3, 2>>}
Thresholds    == {<<5, 1>>, <<10, 1>>}
MaxCapacities == {<<-1, 1>>, <<15, 1>>, <<100, 1>>}

\* Whether the interpreter honours __metaclass__ = ABCMeta (Python 2) or
\* ignores it (Python 3).
AbcEnforced == BOOLEAN

(***************************************************************************)
(* BaseHabitatModel                                                        *)
(***************************************************************************)
\* __init__: self._capacity = 0
BaseHabitatModel_init == [capacity |-> Zero]

\* update: the body of the method is "pass"
BaseHabitatModel_update(self, w) == self

\* get_current_capacity: return self._capacity
BaseHabitatModel_get_current_capacity(self) ==
    [raised |-> "None", ret |-> self.capacity]

(***************************************************************************)
(* ConstantHabitatModel                                                    *)
(***************************************************************************)
\* __init__ stores the argument and does not call the base initialiser
ConstantHabitatModel_init(capacity) == [capacity |-> capacity]

\* a slip that lets rain accumulate in the constant model
ConstantHabitatModel_update_accumulating(self, w) ==
    [self EXCEPT !.capacity = RAdd(self.capacity, w.rain_mm)]

\* update: pass
ConstantHabitatModel_update(self, w) == self

(***************************************************************************)
(* TemporaryRainfallHabitatModel                                           *)
(***************************************************************************)
TemporaryRainfallHabitatModel_init(accumulation_scale, evaporation_scale) ==
    [capacity           |-> BaseHabitatModel_init.capacity,
     accumulation_scale |-> accumulation_scale,
     evaporation_scale  |-> evaporation_scale]

\* exp(F[0] / Tk) * F[1] * sqrt(F[2] / Tk) with Tk = mean_temp_C + 273.15,
\* F = (-5628.1, 5.1e11, Mw / (2 pi R)), R = 8.31446, Mw = 0.01801:
\* 2.5403 at 20 C and 3.4757 at 25 C, tabulated to the nearest half.
ClausiusClapeyron(mean_temp_C) ==
    CASE mean_temp_C = 20 -> <<5, 2>>
      [] mean_temp_C = 25 -> <<7, 2>>

\* evaporation_rate: the Clausius-Clapeyron term times (1.0 - rel_humid)
evaporation_rate(self, w) ==
    RMul(ClausiusClapeyron(w.mean_temp_C), RSub(One, w.rel_humid))

\* lines 76-77: accumulation, then evaporation of the accumulated capacity
AccumulateEvaporate(self, w) ==
    LET c1 == RAdd(self.capacity, RMul(w.rain_mm, self.accumulation_scale))
    IN  RSub(c1, RMul(RMul(c1, self.evaporation_scale), evaporation_rate(self, w)))

\* slip: the "if self._capacity < 0" clamp left out
TemporaryRainfall_update_no_clamp(self, w) ==
    [self EXCEPT !.capacity = AccumulateEvaporate(self, w)]

\* slip: rain subtracted instead of added
TemporaryRainfall_update_rain_subtracted(self, w) ==
    LET c1 == RSub(self.capacity, RMul(w.rain_mm, self.accumulation_scale))
        c2 == RSub(c1, RMul(RMul(c1, self.evaporation_scale), evaporation_rate(self, w)))
    IN  [self EXCEPT !.capacity = IF RLt(c2, Zero) THEN Zero ELSE c2]

\* slip: evaporation taken from the capacity before this step's rain
TemporaryRainfall_update_evaporate_first(self, w) ==
    LET loss == RMul(RMul(self.capacity, self.evaporation_scale), evaporation_rate(self, w))
        c2   == RSub(RAdd(self.capacity, RMul(w.rain_mm, self.accumulation_scale)), loss)
    IN  [self EXCEPT !.capacity = IF RLt(c2, Zero) THEN Zero ELSE c2]

\* update
TemporaryRainfallHabitatModel_update(self, w) ==
    LET c2 == AccumulateEvaporate(self, w)
    IN  [self EXCEPT !.capacity = IF RLt(c2, Zero) THEN Zero ELSE c2]

(***************************************************************************)
(* SeasonalStreamHabitatModel                                              *)
(***************************************************************************)
SeasonalStreamHabitatModel_init(accumulation_scale, evaporation_scale, stream_decay_scale, flow_threshold, max_capacity) ==
    [capacity           |-> BaseHabitatModel_init.capacity,
     accumulation_scale |-> accumulation_scale,
     evaporation_scale  |-> evaporation_scale,
     stream_flow        |-> Zero,
     stream_decay_scale |-> stream_decay_scale,
     flow_threshold     |-> flow_threshold,
     max_capacity       |-> max_capacity]

\* lines 104-105: accumulate rain in the flow, then decay it
StreamFlowStep(self, w) ==
    LET f1 == RAdd(self.stream_flow, w.rain_mm)
    IN  RSub(f1, RMul(f1, self.stream_decay_scale))

\* slip: the clamp to max_capacity left out
SeasonalStream_update_no_cap(self, w) ==
    [TemporaryRainfallHabitatModel_update(self, w)
        EXCEPT !.stream_flow = StreamFlowStep(self, w)]

\* slip: rain subtracted from the flow
SeasonalStream_update_flow_sign(self, w) ==
    LET s1 == TemporaryRainfallHabitatModel_update(self, w)
        f1 == RSub(self.stream_flow, w.rain_mm)
    IN  [s1 EXCEPT
            !.capacity    = IF RLt(self.max_capacity, s1.capacity)
                            THEN self.max_capacity ELSE s1.capacity,
            !.stream_flow = RSub(f1, RMul(f1, self.stream_decay_scale))]

\* slip: the decay of the flow taken from _capacity instead of _stream_flow
SeasonalStream_update_decay_on_capacity(self, w) ==
    LET s1 == TemporaryRainfallHabitatModel_update(self, w)
        c  == IF RLt(self.max_capacity, s1.capacity)
              THEN self.max_capacity ELSE s1.capacity
        f1 == RAdd(self.stream_flow, w.rain_mm)
    IN  [s1 EXCEPT
            !.capacity    = RSub(c, RMul(f1, self.stream_decay_scale)),
            !.stream_flow = f1]

\* slip: the flow decays before this step's rain is added
SeasonalStream_update_decay_first(self, w) ==
    LET s1 == TemporaryRainfallHabitatModel_update(self, w)
    IN  [s1 EXCEPT
            !.capacity    = IF RLt(self.max_capacity, s1.capacity)
                            THEN self.max_capacity ELSE s1.capacity,
            !.stream_flow = RAdd(RSub(self.stream_flow,
                                      RMul(self.stream_flow, self.stream_decay_scale)),
                                 w.rain_mm)]

\* update: the parent's update, the clamp to max_capacity, the flow step
SeasonalStreamHabitatModel_update(self, w) ==
    LET s1 == TemporaryRainfallHabitatModel_update(self, w)
    IN  [s1 EXCEPT
            !.capacity    = IF RLt(self.max_capacity, s1.capacity)
                            THEN self.max_capacity ELSE s1.capacity,
            !.stream_flow = StreamFlowStep(self, w)]

\* slip: the reduction factor inverted
SeasonalStream_get_current_capacity_inverted(self) ==
    LET denom == RAdd(self.stream_flow, self.flow_threshold)
    IN  IF self.flow_threshold = Zero
        THEN [raised |-> "ZeroDivisionError", ret |-> None]
        ELSE [raised |-> "None",
              ret    |-> RMul(self.capacity, RDiv(denom, self.flow_threshold))]

\* get_current_capacity: float division raises ZeroDivisionError on a zero
\* denominator
SeasonalStreamHabitatModel_get_current_capacity(self) ==
    LET denom == RAdd(self.stream_flow, self.flow_threshold)
    IN  IF denom = Zero
        THEN [raised |-> "ZeroDivisionError", ret |-> None]
        ELSE [raised |-> "None",
              ret    |-> RMul(self.capacity, RDiv(self.flow_threshold, denom))]

(***************************************************************************)
(* The driver: construction, then update calls (one weather record per     *)
(* timestep, given to every instance it owns) and capacity reads.          *)
(***************************************************************************)
Instances == DOMAIN obj

Call(method, inst, raised, ret) ==
    [method |-> method, inst |-> inst, raised |-> raised, ret |-> ret]

InitBase ==
    \E enforced \in AbcEnforced :
        /\ cls = "BaseHabitatModel"
        /\ args = <<>>
        /\ obj = IF enforced THEN <<>> ELSE <<BaseHabitatModel_init>>
        /\ outcome = Call("__init__", 0, IF enforced THEN "TypeError" ELSE "None", None)

InitConstant ==
    \E c \in Capacities :
        /\ cls = "ConstantHabitatModel"
        /\ args = <<[capacity |-> c]>>
        /\ obj = <<ConstantHabitatModel_init(c)>>
        /\ outcome = Call("__init__", 0, "None", None)

InitRainfall ==
    \E a \in AccumScales, e \in EvapScales :
        /\ cls = "TemporaryRainfallHabitatModel"
        /\ args = <<[accumulation_scale |-> a, evaporation_scale |-> e]>>
        /\ obj = <<TemporaryRainfallHabitatModel_init(a, e)>>
        /\ outcome = Call("__init__", 0, "None", None)

\* Two stream models alike in accumulation_scale, evaporation_scale and
\* max_capacity, differing in stream_decay_scale and flow_threshold.
InitSeasonalStream ==
    \E a \in AccumScales, e \in EvapScales, m \in MaxCapacities,
       d1 \in DecayScales, d2 \in DecayScales,
       t1 \in Thresholds, t2 \in Thresholds :
        /\ d1 # d2
        /\ t1 # t2
        /\ cls = "SeasonalStreamHabitatModel"
        /\ args = <<[accumulation_scale |-> a, evaporation_scale |-> e,
                     stream_decay_scale |-> d1, flow_threshold |-> t1,
                     max_capacity |-> m],
                    [accumulation_scale |-> a, evaporation_scale |-> e,
                     stream_decay_scale |-> d2, flow_threshold |-> t2,
                     max_capacity |-> m]>>
        /\ obj = <<SeasonalStreamHabitatModel_init(a, e, d1, t1, m),
                   SeasonalStreamHabitatModel_init(a, e, d2, t2, m)>>
        /\ outcome = Call("__init__", 0, "None", None)

Init ==
    /\ InitBase \/ InitConstant \/ InitRainfall \/ InitSeasonalStream
    /\ prev = obj
    /\ weather = None
    /\ steps = 0

UpdateBase(w) ==
    /\ cls = "BaseHabitatModel"
    /\ Instances # {}
    /\ steps < MaxSteps
    /\ obj' = [i \in Instances |-> BaseHabitatModel_update(obj[i], w)]
    /\ prev' = obj
    /\ weather' = w
    /\ outcome' = Call("update", 0, "None", None)
    /\ steps' = steps + 1
    /\ UNCHANGED <<cls, args>>

UpdateConstant(w) ==
    /\ cls = "ConstantHabitatModel"
    /\ steps < MaxSteps
    /\ obj' = [i \in Instances |-> ConstantHabitatModel_update(obj[i], w)]
    /\ prev' = obj
    /\ weather' = w
    /\ outcome' = Call("update", 0, "None", None)
    /\ steps' = steps + 1
    /\ UNCHANGED <<cls, args>>

UpdateRainfall(w) ==
    /\ cls = "TemporaryRainfallHabitatModel"
    /\ steps < MaxSteps
    /\ obj' = [i \in Instances |-> TemporaryRainfallHabitatModel_update(obj[i], w)]
    /\ prev' = obj
    /\ weather' = w
    /\ outcome' = Call("update", 0, "None", None)
    /\ steps' = steps + 1
    /\ UNCHANGED <<cls, args>>

UpdateSeasonalStream(w) ==
    /\ cls = "SeasonalStreamHabitatModel"
    /\ steps < MaxSteps
    /\ obj' = [i \in Instances |-> SeasonalStreamHabitatModel_update(obj[i], w)]
    /\ prev' = obj
    /\ weather' = w
    /\ outcome' = Call("update", 0, "None", None)
    /\ steps' = steps + 1
    /\ UNCHANGED <<cls, args>>

\* the inherited get_current_capacity of the base, constant and rainfall models
GetCurrentCapacity(i) ==
    /\ cls # "SeasonalStreamHabitatModel"
    /\ i \in Instances
    /\ LET r == BaseHabitatModel_get_current_capacity(obj[i])
       IN  outcome' = Call("get_current_capacity", i, r.raised, r.ret)
    /\ prev' = obj
    /\ UNCHANGED <<cls, args, obj, weather, steps>>

\* the override of the seasonal stream model
GetCurrentCapacitySeasonalStream(i) ==
    /\ cls = "SeasonalStreamHabitatModel"
    /\ i \in Instances
    /\ LET r == SeasonalStreamHabitatModel_get_current_capacity(obj[i])
       IN  outcome' = Call("get_current_capacity", i, r.raised, r.ret)
    /\ prev' = obj
    /\ UNCHANGED <<cls, args, obj, weather, steps>>

Next ==
    \/ \E w \in WeatherRecords : UpdateBase(w)
    \/ \E w \in WeatherRecords : UpdateConstant(w)
    \/ \E w \in WeatherRecords : UpdateRainfall(w)
    \/ \E w \in WeatherRecords : UpdateSeasonalStream(w)
    \/ \E i \in {1, 2} : GetCurrentCapacity(i)
    \/ \E i \in {1, 2} : GetCurrentCapacitySeasonalStream(i)

Spec == Init /\ [][Next]_vars

(***************************************************************************)
(* Properties                                                              *)
(***************************************************************************)
Rainfall == "TemporaryRainfallHabitatModel"
Stream   == "SeasonalStreamHabitatModel"

AfterUpdate == outcome.method = "update"
AfterRead   == outcome.method = "get_current_capacity"

RMax(x, y) == IF RLt(x, y) THEN y ELSE x
RMin(x, y) == IF RLt(y, x) THEN y ELSE x

\* C1 as stated: for every rainfall and seasonal-stream model, whatever its
\* construction parameters, the stored capacity is >= 0 in every state.
C1_CapacityNonNegative_AnyParameters ==
    cls \in {Rainfall, Stream} =>
        \A i \in Instances : RLe(Zero, obj[i].capacity)

\* C1 amended: the stored capacity is >= 0 in every state of a rainfall
\* model, and of a seasonal-stream model constructed with max_capacity >= 0.
C1_CapacityNonNegative ==
    \A i \in Instances :
        (\/ cls = Rainfall
         \/ cls = Stream /\ RLe(Zero, obj[i].max_capacity))
        => RLe(Zero, obj[i].capacity)

\* C1 witness: an update of a stream model with max_capacity >= 0 in which
\* evaporation took the capacity below zero and the clamp set it to 0.
C1_Witness ==
    /\ cls = Stream
    /\ AfterUpdate
    /\ \E i \in Instances :
        /\ RLe(Zero, obj[i].max_capacity)
        /\ RLt(AccumulateEvaporate(prev[i], weather), Zero)
        /\ obj[i].capacity = Zero

\* C2: after every update of a seasonal-stream model the stored capacity is
\* <= max_capacity, for all weather and all parameters.
C2_CapacityAtMostMax ==
    (cls = Stream /\ steps > 0) =>
        \A i \in Instances : RLe(obj[i].capacity, obj[i].max_capacity)

\* C2 witness: max_capacity = 15, the rainfall update took the capacity
\* above 15 and the stored capacity is 15.
C2_Witness ==
    /\ cls = Stream
    /\ AfterUpdate
    /\ \E i \in Instances :
        /\ obj[i].max_capacity = <<15, 1>>
        /\ RLt(<<15, 1>>, TemporaryRainfallHabitatModel_update(prev[i], weather).capacity)
        /\ obj[i].capacity = <<15, 1>>

\* C3: a constant model keeps the capacity it was constructed with through
\* any number of updates, update changes nothing, and get_current_capacity
\* returns the construction value.
C3_ConstantInvariance ==
    cls = "ConstantHabitatModel" =>
        /\ \A i \in Instances : obj[i] = [capacity |-> args[i].capacity]
        /\ AfterUpdate => obj = prev
        /\ AfterRead =>
            /\ outcome.raised = "None"
            /\ outcome.ret = args[outcome.inst].capacity

\* C3 witness: a read of a constant model after two or more updates.
C3_Witness ==
    /\ cls = "ConstantHabitatModel"
    /\ steps >= 2
    /\ AfterRead
    /\ outcome.ret = args[outcome.inst].capacity

C5_BaseUpdateFaults ==
    (cls = "BaseHabitatModel" /\ AfterUpdate) => outcome.raised # "None"

\* C6 as stated: with rain_mm >= 0 and flow_threshold > 0, stream_flow >= 0
\* in every reachable state, stream_flow + flow_threshold is never 0 and the
\* read never divides by zero.
C6_FlowNonNegative_AnyParameters ==
    cls = Stream =>
        /\ \A i \in Instances :
            RLt(Zero, obj[i].flow_threshold) =>
                /\ RLe(Zero, obj[i].stream_flow)
                /\ RAdd(obj[i].stream_flow, obj[i].flow_threshold) # Zero
        /\ AfterRead => outcome.raised # "ZeroDivisionError"

\* C6 amended: the same, for models constructed with stream_decay_scale <= 1.
C6_FlowNonNegative ==
    cls = Stream =>
        /\ \A i \in Instances :
            (/\ RLt(Zero, obj[i].flow_threshold)
             /\ RLe(obj[i].stream_decay_scale, One)) =>
                /\ RLe(Zero, obj[i].stream_flow)
                /\ RAdd(obj[i].stream_flow, obj[i].flow_threshold) # Zero
        /\ (/\ AfterRead
            /\ RLt(Zero, obj[outcome.inst].flow_threshold)
            /\ RLe(obj[outcome.inst].stream_decay_scale, One))
            => outcome.raised # "ZeroDivisionError"

\* C6 witness: a read that returned, of a model with stream_decay_scale <= 1
\* whose flow is positive after two or more updates.
C6_Witness ==
    /\ cls = Stream
    /\ steps >= 2
    /\ AfterRead
    /\ outcome.raised = "None"
    /\ RLe(obj[outcome.inst].stream_decay_scale, One)
    /\ RLt(Zero, obj[outcome.inst].stream_flow)

\* the capacity the last update would have left had the record's rain_mm been r
CapacityWithRain(i, r) ==
    TemporaryRainfallHabitatModel_update(prev[i], [weather EXCEPT !.rain_mm = r]).capacity

\* C7 as stated: from the same state, with the same parameters, temperature
\* and humidity, a rainfall model given more rain ends the update with at
\* least the capacity of one given less rain.
C7_MonotonicRain_AnyParameters ==
    (cls = Rainfall /\ AfterUpdate) =>
        \A i \in Instances : \A r \in Rains :
            /\ RLe(r, weather.rain_mm) => RLe(CapacityWithRain(i, r), obj[i].capacity)
            /\ RLe(weather.rain_mm, r) => RLe(obj[i].capacity, CapacityWithRain(i, r))

\* C7 amended: the same, for models constructed with accumulation_scale >= 0.
C7_MonotonicRain ==
    (cls = Rainfall /\ AfterUpdate) =>
        \A i \in Instances : \A r \in Rains :
            RLe(Zero, obj[i].accumulation_scale) =>
                /\ RLe(r, weather.rain_mm) => RLe(CapacityWithRain(i, r), obj[i].capacity)
                /\ RLe(weather.rain_mm, r) => RLe(obj[i].capacity, CapacityWithRain(i, r))

\* C7 witness: an update with accumulation_scale >= 0 where less rain would
\* have left strictly less capacity.
C7_Witness ==
    /\ cls = Rainfall
    /\ AfterUpdate
    /\ \E i \in Instances : \E r \in Rains :
        /\ RLe(Zero, obj[i].accumulation_scale)
        /\ RLt(r, weather.rain_mm)
        /\ RLt(CapacityWithRain(i, r), obj[i].capacity)

\* C8: two seasonal-stream models with the same accumulation_scale,
\* evaporation_scale and max_capacity, fed the same weather, have the same
\* stored capacity in every state, whatever their stream_decay_scale and
\* flow_threshold.
C8_FlowDoesNotFeedBack ==
    (/\ cls = Stream
     /\ args[1].accumulation_scale = args[2].accumulation_scale
     /\ args[1].evaporation_scale = args[2].evaporation_scale
     /\ args[1].max_capacity = args[2].max_capacity) =>
        obj[1].capacity = obj[2].capacity

\* C8 witness: after two updates the two models differ in stream_decay_scale,
\* flow_threshold, stream_flow and reported capacity, and hold the same
\* positive stored capacity.
C8_Witness ==
    /\ cls = Stream
    /\ steps >= 2
    /\ args[1].stream_decay_scale # args[2].stream_decay_scale
    /\ args[1].flow_threshold # args[2].flow_threshold
    /\ obj[1].stream_flow # obj[2].stream_flow
    /\ SeasonalStreamHabitatModel_get_current_capacity(obj[1])
         # SeasonalStreamHabitatModel_get_current_capacity(obj[2])
    /\ RLt(Zero, obj[1].capacity)
    /\ obj[1].capacity = obj[2].capacity

\* C9: an update of a rainfall model leaves max(0, c1 - c1 * evaporation_scale * e)
\* with c1 = c + rain_mm * accumulation_scale and e the evaporation rate of the
\* record; from a fresh model with accumulation_scale 1 and evaporation_scale
\* 1/2, rain_mm 10 at 25 C and humidity 1/2 (e = 7/4) leave 10 - 10/2 * 7/4 = 5/4.
C9_AccumulateEvaporateClamp ==
    (cls = Rainfall /\ AfterUpdate) =>
        \A i \in Instances :
            LET c1 == RAdd(prev[i].capacity,
                           RMul(weather.rain_mm, args[i].accumulation_scale))
                e  == RMul(ClausiusClapeyron(weather.mean_temp_C),
                           RSub(One, weather.rel_humid))
                c2 == RSub(c1, RMul(c1, RMul(args[i].evaporation_scale, e)))
            IN  /\ obj[i].capacity = RMax(Zero, c2)
                /\ (/\ steps = 1
                    /\ args[i] = [accumulation_scale |-> One,
                                  evaporation_scale |-> <<1, 2>>]
                    /\ weather = [mean_temp_C |-> 25, rel_humid |-> <<1, 2>>,
                                  rain_mm |-> <<10, 1>>])
                    => obj[i].capacity = <<5, 4>>

\* C9 witness: the first update of that fresh model, evaporation having taken
\* part of this step's rain.
C9_Witness ==
    /\ cls = Rainfall
    /\ AfterUpdate
    /\ steps = 1
    /\ args[1] = [accumulation_scale |-> One, evaporation_scale |-> <<1, 2>>]
    /\ weather = [mean_temp_C |-> 25, rel_humid |-> <<1, 2>>, rain_mm |-> <<10, 1>>]
    /\ obj[1].capacity = <<5, 4>>

StreamScenario ==
    [accumulation_scale |-> One, evaporation_scale |-> Zero,
     stream_decay_scale |-> <<1, 2>>, flow_threshold |-> <<5, 1>>,
     max_capacity |-> <<100, 1>>]

\* C10: capacity and stream_flow of a seasonal-stream model start at 0; an
\* update leaves capacity = min(max_capacity, the rainfall update's result)
\* and stream_flow = (stream_flow + rain_mm) * (1 - stream_decay_scale); the
\* model (1, 0, 1/2, 5, 100) fed rain_mm 10 holds capacity 10, flow 5 and
\* reports 5 after one update, and holds capacity 20, flow 15/2 after two.
C10_StreamUpdateOrder ==
    cls = Stream =>
        \A i \in Instances :
            /\ steps = 0 => obj[i].capacity = Zero /\ obj[i].stream_flow = Zero
            /\ AfterUpdate =>
                LET c1 == RAdd(prev[i].capacity,
                               RMul(weather.rain_mm, args[i].accumulation_scale))
                    e  == RMul(ClausiusClapeyron(weather.mean_temp_C),
                               RSub(One, weather.rel_humid))
                    c2 == RSub(c1, RMul(c1, RMul(args[i].evaporation_scale, e)))
                IN  /\ obj[i].capacity = RMin(args[i].max_capacity, RMax(Zero, c2))
                    /\ obj[i].stream_flow =
                         RMul(RAdd(prev[i].stream_flow, weather.rain_mm),
                              RSub(One, args[i].stream_decay_scale))
            /\ (AfterUpdate /\ args[i] = StreamScenario /\ weather.rain_mm = <<10, 1>>) =>
                /\ steps = 1 =>
                    /\ obj[i].capacity = <<10, 1>>
                    /\ obj[i].stream_flow = <<5, 1>>
                    /\ SeasonalStreamHabitatModel_get_current_capacity(obj[i])
                         = [raised |-> "None", ret |-> <<5, 1>>]
                /\ (/\ steps = 2
                    /\ prev[i].capacity = <<10, 1>>
                    /\ prev[i].stream_flow = <<5, 1>>) =>
                    /\ obj[i].capacity = <<20, 1>>
                    /\ obj[i].stream_flow = <<15, 2>>

\* C10 witness: the scenario model after its second update with rain_mm 10.
C10_Witness ==
    /\ cls = Stream
    /\ AfterUpdate
    /\ steps = 2
    /\ \E i \in Instances :
        /\ args[i] = StreamScenario
        /\ weather.rain_mm = <<10, 1>>
        /\ prev[i].capacity = <<10, 1>>
        /\ prev[i].stream_flow = <<5, 1>>
        /\ obj[i].capacity = <<20, 1>>
        /\ obj[i].stream_flow = <<15, 2>>

====
